---- MODULE Spec2Model ----
(***************************************************************************)
(* GPM IMERG rainfall extraction for the Panchganga basin, by taluka.      *)
(* Model of "Source codes/gee_panchganga_rainfall_extraction.js".          *)
(*                                                                         *)
(* Instants are counted in native IMERG samples (half-hour slots) since    *)
(* 1970-01-01 00:00; a day holds SlotsPerDay of them.  A number is an      *)
(* integer count of half millimetres, so that multiply(0.5) of a sum of    *)
(* whole mm/hr rates is exact.  A property value is a set: {} is null,     *)
(* {v} is the number v.  A 'YYYY-MM-dd' string is the tuple <<y, m, d>>.   *)
(***************************************************************************)
EXTENDS Integers, Sequences, FiniteSets, TLC

\* ---------------------------------------------------------------- bounds
\* years the monthly list spans (the script lists 2006..2025, twenty years)
NumYears == 2
\* native samples per day (IMERG has 48 half-hourly samples a day)
SlotsPerDay == 2
\* how many times the whole script is run on the same inputs
MaxRuns == 2
\* extractions the engine evaluates at the same time
MaxWorkers == 2
\* IMERG grid cells that intersect one taluka (the cell under its point first)
CellsPerTaluka == 2

\* ------------------------------------------------------- program constants
YearFirst == 2006
YearLast == YearFirst + NumYears - 1
MonthsPerYear == 12

\* keys of the talukas object literal, in insertion order (Object.keys)
talukas ==
  << "Karvir", "Panhala", "Shahuwadi", "Kagal", "Hatkanangle", "Shirol",
     "Radhanagari", "Gaganbawada", "Bhudargad", "Gadhinglaj", "Chandgad",
     "Ajra" >>

TalukaIx == 1..Len(talukas)

Null == {}
Num(v) == {v}
ValueOf(p) == CHOOSE v \in p : TRUE

\* ------------------------------------------------------------- calendar
\* F of the value of v: an operation works on its operand once evaluated
With(v, F(_)) == CHOOSE r \in {F(x) : x \in {v}} : TRUE

IsLeap(y) == (y % 4 = 0 /\ y % 100 # 0) \/ y % 400 = 0

DaysInYear(y) == IF IsLeap(y) THEN 366 ELSE 365

DaysInMonth(y, m) ==
  IF m = 2 THEN (IF IsLeap(y) THEN 29 ELSE 28)
  ELSE IF m \in {4, 6, 9, 11} THEN 30 ELSE 31

\* days from 1970-01-01 to the first of January of year y (y >= 1970)
DaysBeforeYear(y) ==
  365 * (y - 1970) + ((y - 1969) \div 4) - ((y - 1901) \div 100)
    + ((y - 1601) \div 400)

RECURSIVE DaysBeforeMonth(_, _)
DaysBeforeMonth(y, m) ==
  IF m <= 1 THEN 0 ELSE DaysBeforeMonth(y, m - 1) + DaysInMonth(y, m - 1)

\* day number of a calendar date, 1970-01-01 being day 0
EpochDay(y, m, d) == DaysBeforeYear(y) + DaysBeforeMonth(y, m) + d - 1

RECURSIVE YearOfDay(_, _)
YearOfDay(y, n) ==
  IF n < DaysInYear(y) THEN <<y, n>> ELSE YearOfDay(y + 1, n - DaysInYear(y))

RECURSIVE MonthOfDay(_, _, _)
MonthOfDay(y, m, n) ==
  IF n < DaysInMonth(y, m) THEN <<m, n>>
  ELSE MonthOfDay(y, m + 1, n - DaysInMonth(y, m))

\* calendar date <<y, m, d>> of a day number
CivilOfDay(n) ==
  LET y0 == 1970 + (n \div 366)
  IN  With(YearOfDay(y0, n - DaysBeforeYear(y0)), LAMBDA yn :
        With(MonthOfDay(yn[1], 1, yn[2]), LAMBDA mn :
          <<yn[1], mn[1], mn[2] + 1>>))

\* ------------------------------------------------------ ee.Date, ee.List
\* ee.Date('YYYY-MM-dd'): the instant of that date's midnight
Date(s) == EpochDay(s[1], s[2], s[3]) * SlotsPerDay

\* ee.Date.fromYMD(year, month, day)
fromYMD(y, m, d) == EpochDay(y, m, d) * SlotsPerDay

\* date.advance(n, 'day')
advanceDay(t, n) == t + n * SlotsPerDay

\* variant: a month is taken to be thirty days
advanceMonth_ThirtyDays(t) == t + 30 * SlotsPerDay

\* date.advance(1, 'month'): same day and time of day in the next month,
\* the day clamped to the length of that month
advanceMonth(t) ==
  With(CivilOfDay(t \div SlotsPerDay), LAMBDA c :
    LET y2 == IF c[2] = MonthsPerYear THEN c[1] + 1 ELSE c[1]
        m2 == IF c[2] = MonthsPerYear THEN 1 ELSE c[2] + 1
        d2 == IF c[3] > DaysInMonth(y2, m2) THEN DaysInMonth(y2, m2) ELSE c[3]
    IN  EpochDay(y2, m2, d2) * SlotsPerDay + (t % SlotsPerDay))

\* a.difference(b, 'day')
differenceDay(a, b) == (a - b) \div SlotsPerDay

\* date.format('YYYY-MM-dd')
format(t) == CivilOfDay(t \div SlotsPerDay)

\* ee.List.sequence(first, last): empty when last < first
ListSequence(first, last) ==
  IF last < first THEN << >> ELSE [j \in 1..(last - first + 1) |-> first + j - 1]

RECURSIVE ListFlatten(_)
ListFlatten(ll) ==
  IF ll = << >> THEN << >> ELSE Head(ll) \o ListFlatten(Tail(ll))

\* ------------------------------------------------------------ the source
VARIABLES startDate, endDate, source, pc, idx, rainfallData, monthlyData,
          exported, run, previous, tasks, inflight, results

vars == << startDate, endDate, source, pc, idx, rainfallData, monthlyData,
           exported, run, previous, tasks, inflight, results >>

\* the extractions the engine has under way and those it has finished, when
\* it evaluates the elements of a map out of order
engine == << inflight, results >>

\* study intervals the configuration is drawn from (lines 8-9 set one)
StudyIntervals ==
  { << <<2006, 1, 30>>, <<2006, 3, 2>> >>,
    << <<2006, 12, 30>>, <<2007, 1, 2>> >>,
    << <<2006, 1, 1>>, <<2006, 1, 1>> >>,
    << <<2007, 2, 27>>, <<2007, 3, 1>> >>,
    << <<2007, 1, 3>>, <<2007, 1, 1>> >> }

\* (taluka, day) pairs for which the source may hold no data
GapCandidates ==
  { <<1, EpochDay(2006, 2, 10)>>, <<Len(talukas), EpochDay(2006, 12, 31)>> }

\* the external catalogue: images exist for the instants first..cover-1; the
\* pixel under taluka k at instant t is masked on a gap day, else a rate
Sources ==
  [ seed  : 0..2,
    first : { fromYMD(2000, 6, 1) },
    cover : { fromYMD(2006, 2, 20), fromYMD(YearLast + 1, 6, 1) },
    gap   : SUBSET GapCandidates ]

\* precipitationCal of the image of instant t at the point of taluka k
Sample(k, t) ==
  IF <<k, t \div SlotsPerDay>> \in source.gap THEN Null
  ELSE Num(((source.seed * (k + t)) % 3) * 2)

\* ee.ImageCollection('NASA/GPM_L3/IMERG_V07'): images by instant, [from, to)
Catalog == [from |-> source.first, to |-> source.cover]

\* collection.filterDate(start, end): images with start <= instant < end
filterDate(coll, start, end) ==
  [from |-> IF start > coll.from THEN start ELSE coll.from,
   to   |-> IF end < coll.to THEN end ELSE coll.to]

Instants(coll) == coll.from..(coll.to - 1)

RECURSIVE SumFrom(_, _, _)
SumFrom(k, t, to) ==
  IF t >= to THEN 0
  ELSE (IF Sample(k, t) = Null THEN 0 ELSE ValueOf(Sample(k, t)))
       + SumFrom(k, t + 1, to)

\* variant: a sum over no value is 0 instead of masked
ImageSum_ZeroWhenEmpty(coll) ==
  [k \in TalukaIx |-> Num(SumFrom(k, coll.from, coll.to))]

\* collection.sum(): per pixel, the sum of the unmasked values; masked where
\* no image of the collection has a value
ImageSum(coll) ==
  With(coll, LAMBDA c :
    [k \in TalukaIx |->
       IF \A t \in Instants(c) : Sample(k, t) = Null THEN Null
       ELSE Num(SumFrom(k, c.from, c.to))])

\* variant: the factor 0.5 is left out
multiplyHalf_Unscaled(img) == img

\* image.multiply(0.5)
multiplyHalf(img) ==
  With(img, LAMBDA i :
    [k \in TalukaIx |-> IF i[k] = Null THEN Null ELSE Num(ValueOf(i[k]) \div 2)])

\* image.reduceRegion({reducer: first, geometry: point}).get('precipitationCal')
reduceRegionFirst(img, k) == img[k]

\* variant: the window loaded moves with the run instead of staying at
\* [startDate, endDate)
imerg_MovingWindow ==
  filterDate(Catalog, advanceDay(Date(startDate), run - 1), Date(endDate))

\* lines 35-37
imerg == filterDate(Catalog, Date(startDate), Date(endDate))

\* ------------------------------------------------------- daily extraction
\* variant: the features also carry the point's coordinates (place in the
\* catalog standing for the pair)
extractDailyRainfall_WithCoordinates(date) ==
  LET start == date
      end   == advanceDay(start, 1)
      daily == multiplyHalf(ImageSum(filterDate(imerg, start, end)))
  IN  [k \in TalukaIx |->
         [date        |-> format(start),
          taluka      |-> talukas[k],
          rainfall_mm |-> reduceRegionFirst(daily, k),
          lat         |-> k,
          lon         |-> k]]

\* lines 40-68: one feature per taluka for the day that starts at `date`
extractDailyRainfall(date) ==
  LET start == date
      end   == advanceDay(start, 1)
      daily == multiplyHalf(ImageSum(filterDate(imerg, start, end)))
  IN  With(daily, LAMBDA img :
        [k \in TalukaIx |->
           [date        |-> format(start),
            taluka      |-> talukas[k],
            rainfall_mm |-> reduceRegionFirst(img, k)]])

\* lines 41-42: the period [start, end) queried for `date`
dailyPeriod(date) == [start |-> date, end |-> advanceDay(date, 1)]

\* line 71
days ==
  ListSequence(0, differenceDay(Date(endDate), Date(startDate)) - 1)

\* variant: the dates run from the last day back to the first
dates_Descending ==
  [j \in DOMAIN days |-> advanceDay(Date(startDate), days[Len(days) + 1 - j])]

\* lines 72-74
dates == [j \in DOMAIN days |-> advanceDay(Date(startDate), days[j])]

\* ----------------------------------------------------- monthly extraction
\* variant: the monthly sum is not multiplied by 0.5
extractMonthlyRainfall_Unscaled(yearMonth) ==
  LET year    == yearMonth[1]
      month   == yearMonth[2]
      start   == fromYMD(year, month, 1)
      end     == advanceMonth(start)
      monthly == ImageSum(filterDate(imerg, start, end))
  IN  [k \in TalukaIx |->
         [year        |-> year,
          month       |-> month,
          taluka      |-> talukas[k],
          rainfall_mm |-> reduceRegionFirst(monthly, k)]]

\* lines 101-131: one feature per taluka for the month of yearMonth
extractMonthlyRainfall(yearMonth) ==
  LET year    == yearMonth[1]
      month   == yearMonth[2]
      start   == fromYMD(year, month, 1)
      end     == advanceMonth(start)
      monthly == multiplyHalf(ImageSum(filterDate(imerg, start, end)))
  IN  With(monthly, LAMBDA img :
        [k \in TalukaIx |->
           [year        |-> year,
            month       |-> month,
            taluka      |-> talukas[k],
            rainfall_mm |-> reduceRegionFirst(img, k)]])

\* lines 102-106: the period [start, end) queried for yearMonth
monthlyPeriod(yearMonth) ==
  LET start == fromYMD(yearMonth[1], yearMonth[2], 1)
  IN  [start |-> start, end |-> advanceMonth(start)]

\* line 134
years == ListSequence(YearFirst, YearLast)

\* line 135
months == ListSequence(1, MonthsPerYear)

\* lines 136-140: the [year, month] pairs, year by year
yearMonths ==
  ListFlatten([i \in DOMAIN years |->
                 [j \in DOMAIN months |-> <<years[i], months[j]>>]])

\* ------------------------------------------------------------ the script
NoExport == [daily |-> << >>, monthly |-> << >>]

\* state of the two export tasks of one run (Tasks tab), run by run
NoTask == [daily |-> "none", monthly |-> "none"]

Init ==
  /\ \E iv \in StudyIntervals : startDate = iv[1] /\ endDate = iv[2]
  /\ source \in Sources
  /\ pc = "daily"
  /\ idx = 1
  /\ rainfallData = << >>
  /\ monthlyData = << >>
  /\ exported = NoExport
  /\ run = 1
  /\ previous = NoExport
  /\ tasks = << NoTask >>
  /\ inflight = {}
  /\ results = << >>

\* variant: a date for which some taluka has no data stops the mapping
MapDaily_AbortOnNoData ==
  /\ pc = "daily"
  /\ idx <= Len(dates)
  /\ \A k \in TalukaIx : extractDailyRainfall(dates[idx])[k].rainfall_mm # Null
  /\ rainfallData' = rainfallData \o extractDailyRainfall(dates[idx])
  /\ idx' = idx + 1
  /\ UNCHANGED << startDate, endDate, source, pc, monthlyData, exported, run,
                  previous, tasks, engine >>

\* line 77: dates.map(extractDailyRainfall), flattened, one date a step
MapDaily ==
  /\ pc = "daily"
  /\ idx <= Len(dates)
  /\ rainfallData' = rainfallData \o extractDailyRainfall(dates[idx])
  /\ idx' = idx + 1
  /\ UNCHANGED << startDate, endDate, source, pc, monthlyData, exported, run,
                  previous, tasks, engine >>

\* lines 80-85
ExportDaily ==
  /\ pc = "daily"
  /\ idx > Len(dates)
  /\ exported' = [exported EXCEPT !.daily = rainfallData]
  /\ tasks' = [tasks EXCEPT ![run].daily = "completed"]
  /\ pc' = "monthly"
  /\ idx' = 1
  /\ UNCHANGED << startDate, endDate, source, rainfallData, monthlyData, run,
                  previous, engine >>

\* line 142: yearMonths.map(extractMonthlyRainfall), flattened
MapMonthly ==
  /\ pc = "monthly"
  /\ idx <= Len(yearMonths)
  /\ monthlyData' = monthlyData \o extractMonthlyRainfall(yearMonths[idx])
  /\ idx' = idx + 1
  /\ UNCHANGED << startDate, endDate, source, pc, rainfallData, exported, run,
                  previous, tasks, engine >>

\* variant: the monthly table is written only when the daily export went
\* through, an empty table otherwise
ExportMonthly_NeedsDaily ==
  /\ pc = "monthly"
  /\ idx > Len(yearMonths)
  /\ exported' = [exported EXCEPT !.monthly =
                    IF tasks[run].daily = "completed" THEN monthlyData ELSE << >>]
  /\ tasks' = [tasks EXCEPT ![run].monthly = "completed"]
  /\ pc' = "done"
  /\ UNCHANGED << startDate, endDate, source, idx, rainfallData, monthlyData,
                  run, previous, engine >>

\* lines 145-150
ExportMonthly ==
  /\ pc = "monthly"
  /\ idx > Len(yearMonths)
  /\ exported' = [exported EXCEPT !.monthly = monthlyData]
  /\ tasks' = [tasks EXCEPT ![run].monthly = "completed"]
  /\ pc' = "done"
  /\ UNCHANGED << startDate, endDate, source, idx, rainfallData, monthlyData,
                  run, previous, engine >>

\* the script is run again on the same configuration and the same source
Rerun ==
  /\ pc = "done"
  /\ run < MaxRuns
  /\ previous' = exported
  /\ run' = run + 1
  /\ pc' = "daily"
  /\ idx' = 1
  /\ rainfallData' = << >>
  /\ monthlyData' = << >>
  /\ exported' = NoExport
  /\ tasks' = Append(tasks, NoTask)
  /\ UNCHANGED << startDate, endDate, source, engine >>

Next ==
  \/ MapDaily
  \/ ExportDaily
  \/ MapMonthly
  \/ ExportMonthly
  \/ Rerun

Spec == Init /\ [][Next]_vars

\* the script has no wait and no loop of its own: a step that can be taken
\* is taken; short study intervals
InitLive ==
  /\ Init
  /\ Len(dates) <= 3

LiveSpec == InitLive /\ [][Next]_vars /\ WF_vars(Next)

TypeOK ==
  /\ pc \in {"daily", "monthly", "done"}
  /\ run \in 1..MaxRuns
  /\ idx \in 1..(Len(dates) + Len(yearMonths) + 1)

\* ------------------------------------------------------- failing exports
\* lines 80-85, the task fails (Drive unwritable, quota exceeded): nothing
\* is written for the daily dataset, the script itself has gone on
ExportDailyFails ==
  /\ pc = "daily"
  /\ idx > Len(dates)
  /\ tasks' = [tasks EXCEPT ![run].daily = "failed"]
  /\ pc' = "monthly"
  /\ idx' = 1
  /\ UNCHANGED << startDate, endDate, source, rainfallData, monthlyData,
                  exported, run, previous, engine >>

\* lines 145-150, the task fails
ExportMonthlyFails ==
  /\ pc = "monthly"
  /\ idx > Len(yearMonths)
  /\ tasks' = [tasks EXCEPT ![run].monthly = "failed"]
  /\ pc' = "done"
  /\ UNCHANGED << startDate, endDate, source, idx, rainfallData, monthlyData,
                  exported, run, previous, engine >>

\* a source without gaps that covers every listed year
InitExport ==
  /\ Init
  /\ source.gap = {}
  /\ source.cover = fromYMD(YearLast + 1, 6, 1)

NextExport ==
  \/ MapDaily
  \/ ExportDaily
  \/ ExportDailyFails
  \/ MapMonthly
  \/ ExportMonthly
  \/ ExportMonthlyFails
  \/ Rerun

SpecExport == InitExport /\ [][NextExport]_vars

\* --------------------------------------------- out-of-order evaluation
\* The engine evaluates the elements of a mapped list on up to MaxWorkers
\* workers and finishes them in any order; map keeps each result at the
\* place of its element, and a table is exported from the whole collection.

\* results with the collection of element j added
Stored(j, coll) ==
  [i \in DOMAIN results \cup {j} |-> IF i = j THEN coll ELSE results[i]]

\* line 77: the engine takes up the next date
StartDaily ==
  /\ pc = "daily"
  /\ idx <= Len(dates)
  /\ Cardinality(inflight) < MaxWorkers
  /\ inflight' = inflight \cup {idx}
  /\ idx' = idx + 1
  /\ UNCHANGED << startDate, endDate, source, pc, rainfallData, monthlyData,
                  exported, run, previous, tasks, results >>

\* lines 40-68: extractDailyRainfall(dates[j]) finishes
CompleteDaily(j) ==
  /\ pc = "daily"
  /\ j \in inflight
  /\ results' = Stored(j, extractDailyRainfall(dates[j]))
  /\ inflight' = inflight \ {j}
  /\ UNCHANGED << startDate, endDate, source, pc, idx, rainfallData,
                  monthlyData, exported, run, previous, tasks >>

\* variant: the table is exported as soon as every date has been taken up,
\* from the collections finished by then
JoinExportDaily_NoBarrier ==
  /\ pc = "daily"
  /\ idx > Len(dates)
  /\ rainfallData' =
       ListFlatten([j \in DOMAIN dates |->
                      IF j \in DOMAIN results THEN results[j] ELSE << >>])
  /\ exported' = [exported EXCEPT !.daily = rainfallData']
  /\ tasks' = [tasks EXCEPT ![run].daily = "completed"]
  /\ pc' = "monthly"
  /\ idx' = 1
  /\ results' = << >>
  /\ inflight' = {}
  /\ UNCHANGED << startDate, endDate, source, monthlyData, run, previous >>

\* lines 77-85: every element evaluated, the collections are flattened in
\* list order and the table is exported
JoinExportDaily ==
  /\ pc = "daily"
  /\ idx > Len(dates)
  /\ inflight = {}
  /\ rainfallData' = ListFlatten([j \in DOMAIN dates |-> results[j]])
  /\ exported' = [exported EXCEPT !.daily = rainfallData']
  /\ tasks' = [tasks EXCEPT ![run].daily = "completed"]
  /\ pc' = "monthly"
  /\ idx' = 1
  /\ results' = << >>
  /\ UNCHANGED << startDate, endDate, source, monthlyData, run, previous,
                  inflight >>

\* line 142: the engine takes up the next [year, month] pair
StartMonthly ==
  /\ pc = "monthly"
  /\ idx <= Len(yearMonths)
  /\ Cardinality(inflight) < MaxWorkers
  /\ inflight' = inflight \cup {idx}
  /\ idx' = idx + 1
  /\ UNCHANGED << startDate, endDate, source, pc, rainfallData, monthlyData,
                  exported, run, previous, tasks, results >>

\* lines 101-131: extractMonthlyRainfall(yearMonths[j]) finishes
CompleteMonthly(j) ==
  /\ pc = "monthly"
  /\ j \in inflight
  /\ results' = Stored(j, extractMonthlyRainfall(yearMonths[j]))
  /\ inflight' = inflight \ {j}
  /\ UNCHANGED << startDate, endDate, source, pc, idx, rainfallData,
                  monthlyData, exported, run, previous, tasks >>

\* lines 142-150
JoinExportMonthly ==
  /\ pc = "monthly"
  /\ idx > Len(yearMonths)
  /\ inflight = {}
  /\ monthlyData' = ListFlatten([j \in DOMAIN yearMonths |-> results[j]])
  /\ exported' = [exported EXCEPT !.monthly = monthlyData']
  /\ tasks' = [tasks EXCEPT ![run].monthly = "completed"]
  /\ pc' = "done"
  /\ results' = << >>
  /\ UNCHANGED << startDate, endDate, source, idx, rainfallData, run,
                  previous, inflight >>

\* short study intervals, a source that covers every listed year
InitParallel ==
  /\ Init
  /\ Len(dates) <= 3
  /\ source.cover = fromYMD(YearLast + 1, 6, 1)
  /\ source.gap \subseteq {<<Len(talukas), EpochDay(2006, 12, 31)>>}

NextParallel ==
  \/ StartDaily
  \/ \E j \in inflight : CompleteDaily(j)
  \/ JoinExportDaily
  \/ StartMonthly
  \/ \E j \in inflight : CompleteMonthly(j)
  \/ JoinExportMonthly

SpecParallel == InitParallel /\ [][NextParallel]_vars

\* ------------------------------------------------- vocabulary of the claims
Done == pc = "done"

StartDay == EpochDay(startDate[1], startDate[2], startDate[3])
EndDay == EpochDay(endDate[1], endDate[2], endDate[3])
ValidInterval == EndDay >= StartDay

TalukaIndex(name) == CHOOSE k \in TalukaIx : talukas[k] = name

\* period [start, end) of a daily row and of a monthly row
DayStart(row) == EpochDay(row.date[1], row.date[2], row.date[3]) * SlotsPerDay
DayEnd(row) == DayStart(row) + SlotsPerDay
MonthStart(row) == EpochDay(row.year, row.month, 1) * SlotsPerDay
MonthEnd(row) == MonthStart(row) + DaysInMonth(row.year, row.month) * SlotsPerDay

\* the source holds a sample for taluka k at instant t
HeldAt(k, t) == source.first <= t /\ t < source.cover /\ Sample(k, t) # Null

\* the samples of taluka k the source holds in [a, b): is there one, how
\* many, their sum
HasHeld(k, a, b) == \E t \in a..(b - 1) : HeldAt(k, t)
NumHeld(k, a, b) == Cardinality({t \in a..(b - 1) : HeldAt(k, t)})

RECURSIVE HeldSum(_, _, _)
HeldSum(k, a, b) ==
  IF a >= b THEN 0
  ELSE (IF HeldAt(k, a) THEN ValueOf(Sample(k, a)) ELSE 0) + HeldSum(k, a + 1, b)

\* [a, b) cut to the study interval [startDate 00:00, endDate 00:00)
StudyFrom(a) == IF a < StartDay * SlotsPerDay THEN StartDay * SlotsPerDay ELSE a
StudyTo(b) == IF b > EndDay * SlotsPerDay THEN EndDay * SlotsPerDay ELSE b

\* the same of the samples that also lie inside the study interval
HasLoaded(k, a, b) == HasHeld(k, StudyFrom(a), StudyTo(b))
NumLoaded(k, a, b) == NumHeld(k, StudyFrom(a), StudyTo(b))
LoadedSum(k, a, b) == HeldSum(k, StudyFrom(a), StudyTo(b))

Rows(data) == {data[j] : j \in DOMAIN data}

\* ------------------------------------------------------------------- C1
\* C1: for endDate >= startDate the daily date sequence holds exactly
\* (endDate - startDate).days + 1 dates, one for each calendar date from
\* startDate to endDate inclusive, endDate itself among them.
C1_DailyDatesInclusive ==
  (pc # "daily" /\ ValidInterval) =>
     /\ Len(dates) = EndDay - StartDay + 1
     /\ {r.date : r \in Rows(rainfallData)}
          = {CivilOfDay(n) : n \in StartDay..EndDay}

C3_MonthsOfTouchedYears ==
  (Done /\ ValidInterval) =>
     /\ Len(yearMonths) = MonthsPerYear * (endDate[1] - startDate[1] + 1)
     /\ {<<r.year, r.month>> : r \in Rows(exported.monthly)}
          = (startDate[1]..endDate[1]) \X (1..MonthsPerYear)

\* ------------------------------------------------------------------- C4
\* C4: after a run each dataset holds exactly one row for every (region,
\* period) pair: |regions| x |days of the interval| daily rows and
\* |regions| x 12 x |years of the interval| monthly rows.
C4_RowCounts ==
  (Done /\ ValidInterval) =>
     /\ Len(exported.daily) = Len(talukas) * (EndDay - StartDay + 1)
     /\ Len(exported.monthly)
          = Len(talukas) * MonthsPerYear * (endDate[1] - startDate[1] + 1)
     /\ \A i, j \in DOMAIN exported.daily :
          (exported.daily[i].date = exported.daily[j].date
             /\ exported.daily[i].taluka = exported.daily[j].taluka) => i = j
     /\ \A i, j \in DOMAIN exported.monthly :
          (exported.monthly[i].year = exported.monthly[j].year
             /\ exported.monthly[i].month = exported.monthly[j].month
             /\ exported.monthly[i].taluka = exported.monthly[j].taluka) => i = j

\* ------------------------------------------------------------------- C5
DailyRowsOf(data, civil, k) ==
  {i \in DOMAIN data : data[i].date = civil /\ data[i].taluka = talukas[k]}

MonthlyRowsOf(data, ym, k) ==
  {i \in DOMAIN data :
     data[i].year = ym[1] /\ data[i].month = ym[2] /\ data[i].taluka = talukas[k]}

\* C5: every generated (region, period) pair has exactly one row, also when
\* the source has no data for it; a pair without data is recorded as null, a
\* pair whose samples sum to zero as 0, and 0 is never recorded for a pair
\* without data.
C5_MissingIsNullNotZero ==
  Done =>
     /\ \A j \in DOMAIN dates : \A k \in TalukaIx :
          Cardinality(DailyRowsOf(exported.daily, format(dates[j]), k)) = 1
     /\ \A j \in DOMAIN yearMonths : \A k \in TalukaIx :
          Cardinality(MonthlyRowsOf(exported.monthly, yearMonths[j], k)) = 1
     /\ \A r \in Rows(exported.daily) :
          LET k == TalukaIndex(r.taluka)
              a == DayStart(r)
              b == DayEnd(r)
          IN  /\ ~HasHeld(k, a, b) => r.rainfall_mm = Null
              /\ (HasHeld(k, a, b) /\ HeldSum(k, a, b) = 0)
                   => r.rainfall_mm = Num(0)
              /\ r.rainfall_mm = Num(0) => HasHeld(k, a, b)
              /\ HasHeld(k, a, b) => r.rainfall_mm # Null
     /\ \A r \in Rows(exported.monthly) :
          LET k == TalukaIndex(r.taluka)
              a == MonthStart(r)
              b == MonthEnd(r)
          IN  /\ ~HasHeld(k, a, b) => r.rainfall_mm = Null
              /\ r.rainfall_mm = Num(0) => HasHeld(k, a, b)

\* a finished run where one taluka has no data on a day, another taluka has
\* a value on that day, and some day of the first taluka sums to a true zero
C5_Witness ==
  /\ Done
  /\ \E r1, r2, r3 \in Rows(exported.daily) :
       /\ ~HasHeld(TalukaIndex(r1.taluka), DayStart(r1), DayEnd(r1))
       /\ r1.rainfall_mm = Null
       /\ r2.date = r1.date /\ r2.taluka # r1.taluka /\ r2.rainfall_mm # Null
       /\ r3.taluka = r1.taluka /\ r3.rainfall_mm = Num(0)

\* ------------------------------------------------------------------- C6
\* C6: in both exported datasets the rows are ordered by period start
\* ascending and, within one period, by the region's place in the catalog.
C6_RowsOrdered ==
  Done =>
     /\ \A i \in 1..(Len(exported.daily) - 1) :
          LET r1 == exported.daily[i]
              r2 == exported.daily[i + 1]
          IN  \/ DayStart(r1) < DayStart(r2)
              \/ /\ DayStart(r1) = DayStart(r2)
                 /\ TalukaIndex(r1.taluka) < TalukaIndex(r2.taluka)
     /\ \A i \in 1..(Len(exported.monthly) - 1) :
          LET r1 == exported.monthly[i]
              r2 == exported.monthly[i + 1]
          IN  \/ MonthStart(r1) < MonthStart(r2)
              \/ /\ MonthStart(r1) = MonthStart(r2)
                 /\ TalukaIndex(r1.taluka) < TalukaIndex(r2.taluka)

\* a finished run whose daily dataset spans several days, Karvir opening and
\* Ajra closing the first day
C6_Witness ==
  /\ Done
  /\ Len(exported.daily) >= 2 * Len(talukas)
  /\ exported.daily[1].taluka = "Karvir"
  /\ exported.daily[Len(talukas)].taluka = "Ajra"
  /\ exported.daily[Len(talukas) + 1].date # exported.daily[1].date
  /\ Len(exported.monthly) >= 2 * Len(talukas)

\* ------------------------------------------------------------------- C7
DaysOfMonth(row) ==
  EpochDay(row.year, row.month, 1)
    ..(EpochDay(row.year, row.month, 1) + DaysInMonth(row.year, row.month) - 1)

\* the daily value recorded for taluka k on day n is a number
HasDailyValue(k, n) ==
  \E i \in DailyRowsOf(exported.daily, CivilOfDay(n), k) :
     exported.daily[i].rainfall_mm # Null

DailyValue(k, n) ==
  ValueOf(exported.daily[CHOOSE i \in DailyRowsOf(exported.daily, CivilOfDay(n), k) :
                           exported.daily[i].rainfall_mm # Null].rainfall_mm)

RECURSIVE DailyTotal(_, _, _)
DailyTotal(k, n, last) ==
  IF n > last THEN 0 ELSE DailyValue(k, n) + DailyTotal(k, n + 1, last)

AllDaysRecorded(row) ==
  \A n \in DaysOfMonth(row) : HasDailyValue(TalukaIndex(row.taluka), n)

\* C7: for a month and region whose daily values are all non-missing, the
\* monthly rainfall_mm is the sum of the daily rainfall_mm of all calendar
\* days of that month.
C7_MonthlyIsSumOfDaily ==
  Done =>
     \A r \in Rows(exported.monthly) :
        AllDaysRecorded(r) =>
           /\ r.rainfall_mm # Null
           /\ ValueOf(r.rainfall_mm)
                = DailyTotal(TalukaIndex(r.taluka),
                             EpochDay(r.year, r.month, 1),
                             EpochDay(r.year, r.month, 1)
                               + DaysInMonth(r.year, r.month) - 1)

\* a finished run with a month all of whose days are recorded, with rain
C7_Witness ==
  /\ Done
  /\ \E r \in Rows(exported.monthly) :
       /\ AllDaysRecorded(r)
       /\ r.rainfall_mm # Null
       /\ ValueOf(r.rainfall_mm) > 0

\* ------------------------------------------------------------------- C8
TalukaNames == {talukas[k] : k \in TalukaIx}

C10_InvertedIntervalIsFatal ==
  ~ValidInterval =>
     /\ ~Done
     /\ rainfallData = << >>
     /\ monthlyData = << >>
     /\ exported = NoExport

\* ------------------------------------------------------------------ C11
\* the grid cells that intersect taluka k; cell 1 holds the taluka's point
Cells == 1..CellsPerTaluka

\* area of cell c that lies inside the boundary of taluka k
CellArea(k, c) == IF c = 1 THEN 2 ELSE 1

\* precipitationCal of cell c of taluka k at instant t; the cell under the
\* point is the one reduceRegion reads
CellSample(k, c, t) ==
  IF c = 1 \/ Sample(k, t) = Null THEN Sample(k, t)
  ELSE Num(((source.seed * (k + t + c - 1)) % 3) * 2)

RECURSIVE CellSum(_, _, _, _)
CellSum(k, c, a, b) ==
  IF a >= b THEN 0
  ELSE (IF HeldAt(k, a) THEN ValueOf(CellSample(k, c, a)) ELSE 0)
       + CellSum(k, c, a + 1, b)

RECURSIVE WeightedSum(_, _, _, _)
WeightedSum(k, c, a, b) ==
  IF c > CellsPerTaluka THEN 0
  ELSE CellArea(k, c) * CellSum(k, c, a, b) + WeightedSum(k, c + 1, a, b)

RECURSIVE TotalArea(_, _)
TotalArea(k, c) ==
  IF c > CellsPerTaluka THEN 0 ELSE CellArea(k, c) + TotalArea(k, c + 1)

\* C11: the value recorded for a taluka in a period is the area-weighted
\* mean sum(P_cell x A_cell) / sum(A_cell) of the cells that intersect the
\* taluka (P_cell being 0.5 x the cell's sample sum), not one cell's value.
C11_AreaWeightedMean ==
  \A r \in Rows(rainfallData) :
     LET k == TalukaIndex(r.taluka)
         a == DayStart(r)
         b == DayEnd(r)
     IN  r.rainfall_mm # Null =>
            2 * ValueOf(r.rainfall_mm) * TotalArea(k, 1) = WeightedSum(k, 1, a, b)

\* ------------------------------------------------------------------ C13
\* C13: every monthly observation aggregates all native samples of its whole
\* calendar month [first of month, first of next month), also those outside
\* the study interval.
C13_MonthlyCoversWholeMonth ==
  \A r \in Rows(monthlyData) :
     LET k == TalukaIndex(r.taluka)
     IN  HasHeld(k, MonthStart(r), MonthEnd(r)) =>
            /\ r.rainfall_mm # Null
            /\ 2 * ValueOf(r.rainfall_mm) = HeldSum(k, MonthStart(r), MonthEnd(r))

\* ------------------------------------------------------------------ C14
NextMonth(ym) ==
  IF ym[2] = 12 THEN <<ym[1] + 1, 1>> ELSE <<ym[1], ym[2] + 1>>

\* C14: every daily period is [d 00:00, d + 1 day 00:00), every monthly
\* period [first of month, first of next month); within a granularity each
\* period ends where the next one starts and no two periods share an
\* instant; the rows recorded carry the starts of these periods.
C14_PeriodsTile ==
  Done =>
     /\ \A j \in DOMAIN dates :
          LET p == dailyPeriod(dates[j])
              d == p.start \div SlotsPerDay
          IN  /\ p.start = d * SlotsPerDay
              /\ p.end = (d + 1) * SlotsPerDay
              /\ j < Len(dates) => p.end = dailyPeriod(dates[j + 1]).start
     /\ \A i, j \in DOMAIN dates :
          i < j => dailyPeriod(dates[i]).end <= dailyPeriod(dates[j]).start
     /\ \A j \in DOMAIN yearMonths :
          LET p  == monthlyPeriod(yearMonths[j])
              nx == NextMonth(yearMonths[j])
          IN  /\ p.start
                   = EpochDay(yearMonths[j][1], yearMonths[j][2], 1) * SlotsPerDay
              /\ p.end = EpochDay(nx[1], nx[2], 1) * SlotsPerDay
              /\ p.start < p.end
              /\ j < Len(yearMonths)
                   => p.end = monthlyPeriod(yearMonths[j + 1]).start
     /\ \A i, j \in DOMAIN yearMonths :
          i < j => monthlyPeriod(yearMonths[i]).end
                     <= monthlyPeriod(yearMonths[j]).start
     /\ \A i \in DOMAIN exported.daily :
          exported.daily[i].date
            = format(dailyPeriod(dates[((i - 1) \div Len(talukas)) + 1]).start)
     /\ \A i \in DOMAIN exported.monthly :
          MonthStart(exported.monthly[i])
            = monthlyPeriod(yearMonths[((i - 1) \div Len(talukas)) + 1]).start

\* a finished run whose days cross a month boundary and whose months cross a
\* year boundary and a February
C14_Witness ==
  /\ Done
  /\ \E j \in 1..(Len(dates) - 1) : format(dates[j])[2] # format(dates[j + 1])[2]
  /\ \E j \in 1..(Len(yearMonths) - 1) : yearMonths[j][1] # yearMonths[j + 1][1]
  /\ \E r \in Rows(exported.monthly) : r.month = 2
  /\ exported.daily # << >>

\* ------------------------------------------------------------------ C12
BothCompleted(t) == t.daily = "completed" /\ t.monthly = "completed"

\* C12: when the export of one dataset fails, the export of the other can
\* still start and succeed, and what it writes is what it writes in a run
\* where both exports succeed.
C12_ExportsIndependent ==
  /\ (pc = "monthly" /\ idx > Len(yearMonths) /\ tasks[run].daily = "failed")
       => ENABLED ExportMonthly
  /\ (Done /\ run > 1 /\ BothCompleted(tasks[run - 1])) =>
        /\ (tasks[run].daily = "failed" /\ tasks[run].monthly = "completed")
             => exported.monthly = previous.monthly
        /\ (tasks[run].monthly = "failed" /\ tasks[run].daily = "completed")
             => exported.daily = previous.daily

\* a run whose daily export failed and whose monthly export wrote the rows
\* of the run before, in which both exports succeeded
C12_Witness ==
  /\ Done
  /\ run > 1
  /\ BothCompleted(tasks[run - 1])
  /\ tasks[run].daily = "failed"
  /\ tasks[run].monthly = "completed"
  /\ exported.daily = << >>
  /\ exported.monthly # << >>
  /\ exported.monthly = previous.monthly
  /\ \E r \in Rows(exported.monthly) : r.rainfall_mm # Null

\* ------------------------------------------------------------------ C15
\* the rows under sequential evaluation: element after element, in list order
SequentialDaily ==
  ListFlatten([j \in DOMAIN dates |-> extractDailyRainfall(dates[j])])

SequentialMonthly ==
  ListFlatten([j \in DOMAIN yearMonths |-> extractMonthlyRainfall(yearMonths[j])])

\* C15: whatever order the extractions of a dataset finish in, the dataset
\* is exported only after all of them have finished, and the exported rows
\* and their order are those of sequential evaluation.
C15_OrderIndependent ==
  /\ tasks[run].daily = "completed" =>
        /\ exported.daily = SequentialDaily
        /\ Len(exported.daily) = Len(dates) * Len(talukas)
  /\ tasks[run].monthly = "completed" =>
        /\ exported.monthly = SequentialMonthly
        /\ Len(exported.monthly) = Len(yearMonths) * Len(talukas)
  /\ tasks[run].daily = "none" => exported.daily = << >>
  /\ tasks[run].monthly = "none" => exported.monthly = << >>

\* the daily table exported in full after its dates (several) finished, while
\* a later month has finished before an earlier one
C15_Witness ==
  /\ pc = "monthly"
  /\ tasks[run].daily = "completed"
  /\ Len(dates) >= 2
  /\ exported.daily = SequentialDaily
  /\ \E j \in inflight : \E i \in DOMAIN results : i > j

\* ------------------------------------------------------------------ C16
\* C16: no-data outcomes never abort a run: every run that has started goes
\* on to finish both extractions and to export the daily and the monthly
\* dataset.
C16_RunReachesExports ==
  [](pc # "done" => <>(Done /\ BothCompleted(tasks[run])))

\* a finished run, both tables exported, with no-data rows next to rows
\* that carry values in both of them
C16_Witness ==
  /\ Done
  /\ BothCompleted(tasks[run])
  /\ \E r1, r2 \in Rows(exported.daily) :
       r1.rainfall_mm = Null /\ r2.rainfall_mm # Null
  /\ \E r1, r2 \in Rows(exported.monthly) :
       r1.rainfall_mm = Null /\ r2.rainfall_mm # Null

====
